---- MODULE Spec2Model ----
(***************************************************************************)
(* Model of obinskit-utils: keycodes.py (the keycode table and its two     *)
(* lookup maps) and edit-macro.py (one edit session: read the macro_value  *)
(* of a row, render it to a text file, run $EDITOR, parse the file back,   *)
(* compare, diff, UPDATE, commit, close).                                  *)
(*                                                                         *)
(* Text is modelled by what the code looks at.  A line of the temporary    *)
(* file is [hash, toks]: whether it starts with '#', and the result of     *)
(* line.strip().split().  The macro_value column is modelled by the list   *)
(* text.strip('[]').split(',') of its element strings ("[]" gives <<"">>). *)
(* An uncaught Python exception ends the process: pc = "done", outcome =   *)
(* "Aborted", err = the name of the failure.  log records, in order, the   *)
(* calls on the outside world: connect, editor, update, commit, close;     *)
(* table0 keeps the content of the database file when the session began.   *)
(***************************************************************************)
EXTENDS Integers, Sequences, FiniteSets, TLC

VARIABLES keycodes_by_value, keycodes_by_name, idx, pc, table, table0,
          dry_run, connOpen, selections, int_macro_value, int_3_tuples,
          tmpfile, rendered, returncode, lines, new_macro_value, diffs,
          txn, log, outcome, err

vars == <<keycodes_by_value, keycodes_by_name, idx, pc, table, table0,
          dry_run, connOpen, selections, int_macro_value, int_3_tuples,
          tmpfile, rendered, returncode, lines, new_macro_value, diffs,
          txn, log, outcome, err>>

(* keycodes.py: the ordered entry table, [id, {name, value}] per entry.    *)
(* Commented-out entries of the source are absent, as in the source.       *)
originalMap ==
  <<
    [id |-> 1, name |-> "Esc", value |-> 41],
    [id |-> 2, name |-> "1", value |-> 30],
    [id |-> 3, name |-> "2", value |-> 31],
    [id |-> 4, name |-> "3", value |-> 32],
    [id |-> 5, name |-> "4", value |-> 33],
    [id |-> 6, name |-> "5", value |-> 34],
    [id |-> 7, name |-> "6", value |-> 35],
    [id |-> 8, name |-> "7", value |-> 36],
    [id |-> 9, name |-> "8", value |-> 37],
    [id |-> 10, name |-> "9", value |-> 38],
    [id |-> 11, name |-> "0", value |-> 39],
    [id |-> 12, name |-> "-_", value |-> 45],
    [id |-> 13, name |-> "=+", value |-> 46],
    [id |-> 14, name |-> "Backspace", value |-> 42],
    [id |-> 15, name |-> "Tab", value |-> 43],
    [id |-> 16, name |-> "Q", value |-> 20],
    [id |-> 17, name |-> "W", value |-> 26],
    [id |-> 18, name |-> "E", value |-> 8],
    [id |-> 19, name |-> "R", value |-> 21],
    [id |-> 20, name |-> "T", value |-> 23],
    [id |-> 21, name |-> "Y", value |-> 28],
    [id |-> 22, name |-> "U", value |-> 24],
    [id |-> 23, name |-> "I", value |-> 12],
    [id |-> 24, name |-> "O", value |-> 18],
    [id |-> 25, name |-> "P", value |-> 19],
    [id |-> 26, name |-> "[{", value |-> 47],
    [id |-> 27, name |-> "]}", value |-> 48],
    [id |-> 28, name |-> "Enter", value |-> 40],
    [id |-> 29, name |-> "LeftCtrl", value |-> 224],
    [id |-> 30, name |-> "A", value |-> 4],
    [id |-> 31, name |-> "S", value |-> 22],
    [id |-> 32, name |-> "D", value |-> 7],
    [id |-> 33, name |-> "F", value |-> 9],
    [id |-> 34, name |-> "G", value |-> 10],
    [id |-> 35, name |-> "H", value |-> 11],
    [id |-> 36, name |-> "J", value |-> 13],
    [id |-> 37, name |-> "K", value |-> 14],
    [id |-> 38, name |-> "L", value |-> 15],
    [id |-> 39, name |-> ";:", value |-> 51],
    [id |-> 40, name |-> "\"", value |-> 52],
    [id |-> 41, name |-> "BACKTICK~", value |-> 53],  \* the name is backtick-tilde; the lexer has no backtick in strings
    [id |-> 42, name |-> "LeftShift", value |-> 225],
    [id |-> 43, name |-> "\\|", value |-> 49],
    [id |-> 44, name |-> "Z", value |-> 29],
    [id |-> 45, name |-> "X", value |-> 27],
    [id |-> 46, name |-> "C", value |-> 6],
    [id |-> 47, name |-> "V", value |-> 25],
    [id |-> 48, name |-> "B", value |-> 5],
    [id |-> 49, name |-> "N", value |-> 17],
    [id |-> 50, name |-> "M", value |-> 16],
    [id |-> 51, name |-> ",<", value |-> 54],
    [id |-> 52, name |-> ".>", value |-> 55],
    [id |-> 53, name |-> "/?", value |-> 56],
    [id |-> 54, name |-> "RightShift", value |-> 229],
    [id |-> 56, name |-> "LeftAlt", value |-> 226],
    [id |-> 57, name |-> "Space", value |-> 44],
    [id |-> 58, name |-> "CapsLock", value |-> 57],
    [id |-> 59, name |-> "F1", value |-> 58],
    [id |-> 60, name |-> "F2", value |-> 59],
    [id |-> 61, name |-> "F3", value |-> 60],
    [id |-> 62, name |-> "F4", value |-> 61],
    [id |-> 63, name |-> "F5", value |-> 62],
    [id |-> 64, name |-> "F6", value |-> 63],
    [id |-> 65, name |-> "F7", value |-> 64],
    [id |-> 66, name |-> "F8", value |-> 65],
    [id |-> 67, name |-> "F9", value |-> 66],
    [id |-> 68, name |-> "F10", value |-> 67],
    [id |-> 69, name |-> "NumLock", value |-> 83],
    [id |-> 70, name |-> "Scroll Lock", value |-> 71],
    [id |-> 74, name |-> "-", value |-> 86],
    [id |-> 78, name |-> "+", value |-> 87],
    [id |-> 83, name |-> ".", value |-> 99],
    [id |-> 87, name |-> "F11", value |-> 68],
    [id |-> 88, name |-> "F12", value |-> 69],
    [id |-> 91, name |-> "PrintScreen", value |-> 70],
    [id |-> 3613, name |-> "RightCtrl", value |-> 228],
    [id |-> 3639, name |-> "PrintScreen", value |-> 70],
    [id |-> 3640, name |-> "RightAlt", value |-> 230],
    [id |-> 3653, name |-> "Pause", value |-> 72],
    [id |-> 3655, name |-> "Home", value |-> 74],
    [id |-> 3657, name |-> "PageUp", value |-> 75],
    [id |-> 3663, name |-> "End", value |-> 77],
    [id |-> 3665, name |-> "PageDown", value |-> 78],
    [id |-> 3666, name |-> "Insert", value |-> 73],
    [id |-> 3667, name |-> "Delete", value |-> 76],
    [id |-> 3677, name |-> "Menu", value |-> 101],
    [id |-> 57416, name |-> "↑", value |-> 82],
    [id |-> 57419, name |-> "←", value |-> 80],
    [id |-> 57421, name |-> "→", value |-> 79],
    [id |-> 57424, name |-> "↓", value |-> 81],
    [id |-> 61000, name |-> "↑", value |-> 82],
    [id |-> 61001, name |-> "PageUp", value |-> 75],
    [id |-> 61003, name |-> "←", value |-> 80],
    [id |-> 61005, name |-> "→", value |-> 79],
    [id |-> 61007, name |-> "End", value |-> 77],
    [id |-> 61008, name |-> "↓", value |-> 81],
    [id |-> 61009, name |-> "PageDown", value |-> 78],
    [id |-> 61010, name |-> "Insert", value |-> 73],
    [id |-> 61011, name |-> "Delete", value |-> 76],
    [id |-> 60999, name |-> "Home", value |-> 74]
  >>

----------------------------------------------------------------------------
(* Bounds of the model.                                                    *)
MaxRows == 2      \* rows of kbd_macro_new whose name is the macro name
MaxEvents == 1    \* events of a stored macro built from TriplePool
MaxLines == 2     \* event lines the operator leaves in the edited file

----------------------------------------------------------------------------
(* Input pools.                                                            *)

\* 3-int groups a stored macro_value is built from: J down, wait 10,
\* wait 500 (= 244 + 1*256), Scroll Lock down, a key event with a keycode
\* that is in no table entry, an event tag outside 1..3.
TriplePool ==
  { <<2, 13, 0>>, <<3, 10, 0>>, <<3, 244, 1>>,
    <<2, 71, 0>>, <<1, 2, 3>>, <<4, 13, 0>> }

\* what may follow the last complete group: nothing, or 1 or 2 more ints
Tails == { <<>>, <<4>>, <<3>>, <<2, 13>> }

\* durations the operator may type after WAIT
Durations == { -5, 10, 255, 256, 500, 65535, 65536 }

\* every integer whose decimal text occurs in the model
Numbers == (0 .. 255) \cup Durations

\* the event lines the operator may leave in the file, as token lists
LinePool ==
  { <<"WAIT", ToString(d)>> : d \in Durations } \cup
  { <<"KEY_DOWN", "J">>, <<"key_up", "J">>, <<"FROB", "5">>,
    <<"KEY_DOWN", "NoSuchKey">>, <<"KEY_UP">> }

\* the example of the instructions: press J for 10 msec
ExampleMacro == <<2, 13, 0, 3, 10, 0, 1, 13, 0>>

MacroName == "m"       \* --macro-name
OtherName == "other"   \* the name of a row the session is not about

----------------------------------------------------------------------------
(* Python primitives the code relies on.                                   *)

RECURSIVE Flatten(_)
\* the concatenation of a list of lists
Flatten(ss) == IF ss = <<>> THEN <<>> ELSE Head(ss) \o Flatten(Tail(ss))

\* d[k] = v on a dict
Put(d, k, v) == [x \in DOMAIN d \cup {k} |-> IF x = k THEN v ELSE d[x]]

\* str.split() of a key name: "Scroll Lock" is the one name of the table
\* that contains whitespace
Words(s) == IF s = "Scroll Lock" THEN <<"Scroll", "Lock">> ELSE <<s>>

\* str.upper() on the first token of a line
Upper(s) ==
  CASE s = "key_up" -> "KEY_UP"
    [] s = "key_down" -> "KEY_DOWN"
    [] s = "wait" -> "WAIT"
    [] s = "frob" -> "FROB"
    [] OTHER -> s

\* int(s): the decimal texts of Numbers, with or without a leading blank
\* (int() strips whitespace); any other text raises ValueError
IntTexts == [n \in Numbers |-> {ToString(n), " " \o ToString(n)}]
IsIntStr(s) == \E n \in Numbers : s \in IntTexts[n]
IntOfStr(s) == CHOOSE n \in Numbers : s \in IntTexts[n]

\* str(list).strip('[]').split(','): "[2, 13, 0]" -> "2", " 13", " 0"
FormatList(v) ==
  IF v = <<>> THEN <<"">>
  ELSE [i \in DOMAIN v |->
          IF i = 1 THEN ToString(v[i]) ELSE " " \o ToString(v[i])]

\* the text ObinsKit itself stores: "[2,13,0]", no blanks
ObinsKitText(v) ==
  IF v = <<>> THEN <<"">> ELSE [i \in DOMAIN v |-> ToString(v[i])]

Min(a, b) == IF a < b THEN a ELSE b

\* Tuples with the bug of grouping whole triples only, as
\* range(0, len(v) - len(v) % 3, 3) would: a trailing partial group is lost
Tuples_WholeOnly(v) ==
  [k \in 1 .. (Len(v) \div 3) |-> SubSeq(v, 3 * (k - 1) + 1, 3 * k)]

\* [tuple(v[i:i+3]) for i in range(0, len(v), 3)]
Tuples(v) ==
  [k \in 1 .. ((Len(v) + 2) \div 3) |->
     SubSeq(v, 3 * (k - 1) + 1, Min(3 * k, Len(v)))]

----------------------------------------------------------------------------
(* ObinsKitMacroItemKey / ObinsKitMacroItemTuple                           *)

KEY_UP == 1
KEY_DOWN == 2
WAIT == 3

\* ObinsKitMacroItemKey.__str__: the member's name (padding is whitespace,
\* which split() drops)
KeyName(k) ==
  CASE k = KEY_UP -> "KEY_UP" [] k = KEY_DOWN -> "KEY_DOWN" [] k = WAIT -> "WAIT"

\* ObinsKitMacroItemTuple._make(t) followed by __str__, on the int tuple t:
\* [err, toks].  _make raises TypeError unless t has 3 items (MalformedMacro),
\* ObinsKitMacroItemKey(key) raises ValueError unless key is 1, 2 or 3
\* (UnknownEventKind), keycodes_by_value[value_2] raises KeyError
\* (UnknownKeycode).
ToStr(t, by_value) ==
  IF Len(t) # 3 THEN [err |-> "MalformedMacro", toks |-> <<>>]
  ELSE IF t[1] \notin {KEY_UP, KEY_DOWN, WAIT}
    THEN [err |-> "UnknownEventKind", toks |-> <<>>]
  ELSE IF t[1] \in {KEY_UP, KEY_DOWN}
    THEN IF t[2] \in DOMAIN by_value
           THEN [err |-> "none",
                 toks |-> <<KeyName(t[1])>> \o Words(by_value[t[2]].name)]
           ELSE [err |-> "UnknownKeycode", toks |-> <<>>]
  ELSE [err |-> "none",
        toks |-> <<KeyName(t[1]), ToString(t[2] + t[3] * 256)>>]

\* ObinsKitMacroItemTuple.from_str(line).to_int_macro_value_list(), on the
\* tokens of the line: [err, ints].  The unpacking key, value = split()
\* raises ValueError unless there are 2 tokens (MalformedLine); a first token
\* that is none of the three names makes from_str return None, and the call
\* on None raises AttributeError (UnknownEventKind); keycodes_by_name[value]
\* raises KeyError (UnknownKeycode); int(value) raises ValueError
\* (InvalidDuration).
from_str(toks, by_name) ==
  IF Len(toks) # 2 THEN [err |-> "MalformedLine", ints |-> <<>>]
  ELSE IF Upper(toks[1]) = "KEY_UP"
    THEN IF toks[2] \in DOMAIN by_name
           THEN [err |-> "none", ints |-> <<KEY_UP, by_name[toks[2]].value, 0>>]
           ELSE [err |-> "UnknownKeycode", ints |-> <<>>]
  ELSE IF Upper(toks[1]) = "KEY_DOWN"
    THEN IF toks[2] \in DOMAIN by_name
           THEN [err |-> "none", ints |-> <<KEY_DOWN, by_name[toks[2]].value, 0>>]
           ELSE [err |-> "UnknownKeycode", ints |-> <<>>]
  ELSE IF Upper(toks[1]) = "WAIT"
    THEN IF IsIntStr(toks[2])
           THEN [err |-> "none", ints |-> <<WAIT, IntOfStr(toks[2]), 0>>]
           ELSE [err |-> "InvalidDuration", ints |-> <<>>]
  ELSE [err |-> "UnknownEventKind", ints |-> <<>>]

----------------------------------------------------------------------------
(* The inputs of a session.                                                *)

\* the lists over S of length at most n
SeqsUpTo(S, n) == UNION { [1 .. k -> S] : k \in 0 .. n }

\* the int lists a macro_value column may hold
StoredValues ==
  { Flatten(s) \o t : s \in SeqsUpTo(TriplePool, MaxEvents), t \in Tails }
    \cup { ExampleMacro }

\* kbd_macro_new: one row of another macro, then k rows named MacroName;
\* the first of them holds any stored value, the others the example
Tables ==
  { <<[name |-> OtherName, macro_value |-> ObinsKitText(<<2, 13, 0>>)]>> \o
    [i \in 1 .. k |->
       [name |-> MacroName,
        macro_value |-> ObinsKitText(IF i = 1 THEN v ELSE ExampleMacro)]] :
    k \in 0 .. MaxRows, v \in StoredValues }

\* the 16 lines of instructions, each starting with '#'
HeaderLen == 16
Header == [i \in 1 .. HeaderLen |-> [hash |-> TRUE, toks |-> <<"#">>]]
BlankLine == [hash |-> FALSE, toks |-> <<>>]

\* the files the operator may save: the instructions, a blank line, and at
\* most MaxLines event lines
EditedFiles ==
  { Header \o <<BlankLine>> \o
    [i \in DOMAIN b |-> [hash |-> FALSE, toks |-> b[i]]] :
    b \in SeqsUpTo(LinePool, MaxLines) }

NoDiffs == [unified_from |-> <<>>, unified_to |-> <<>>,
            html_from |-> <<>>, html_to |-> <<>>]

Init ==
  /\ keycodes_by_value = <<>>
  /\ keycodes_by_name = <<>>
  /\ idx = 1
  /\ pc = "import_by_value"
  /\ table = <<>>
  /\ table0 = <<>>
  /\ dry_run = FALSE
  /\ connOpen = FALSE
  /\ selections = <<>>
  /\ int_macro_value = <<>>
  /\ int_3_tuples = <<>>
  /\ tmpfile = <<>>
  /\ rendered = <<>>
  /\ returncode = 0
  /\ lines = <<>>
  /\ new_macro_value = <<>>
  /\ diffs = NoDiffs
  /\ txn = <<>>
  /\ log = <<>>
  /\ outcome = "running"
  /\ err = "none"

sessionVars == <<table, table0, dry_run, connOpen, selections,
                 int_macro_value, int_3_tuples, tmpfile, rendered,
                 returncode, lines, new_macro_value, diffs, txn, log,
                 outcome, err>>

----------------------------------------------------------------------------
(* keycodes.py, executed by the import at edit-macro.py line 60.           *)

\* one iteration of the dict comprehension keycodes_by_value
BuildByValue ==
  /\ pc = "import_by_value"
  /\ LET e == originalMap[idx] IN
       keycodes_by_value' =
         Put(keycodes_by_value, e.value, [id |-> e.id, name |-> e.name])
  /\ IF idx < Len(originalMap)
       THEN idx' = idx + 1 /\ pc' = pc
       ELSE idx' = 1 /\ pc' = "import_by_name"
  /\ UNCHANGED <<keycodes_by_name, sessionVars>>

\* one iteration of the dict comprehension keycodes_by_name
BuildByName ==
  /\ pc = "import_by_name"
  /\ LET e == originalMap[idx] IN
       keycodes_by_name' =
         Put(keycodes_by_name, e.name, [id |-> e.id, value |-> e.value])
  /\ IF idx < Len(originalMap)
       THEN idx' = idx + 1 /\ pc' = pc
       ELSE idx' = 1 /\ pc' = "connect"
  /\ UNCHANGED <<keycodes_by_value, sessionVars>>

----------------------------------------------------------------------------
(* edit-macro.py, main(db_path, macro_name, dry_run)                       *)

importVars == <<keycodes_by_value, keycodes_by_name, idx>>

\* an uncaught exception, or sys.exit(-1): the process ends
Abort(e) == pc' = "done" /\ outcome' = "Aborted" /\ err' = e

\* lines 131-138: copy the database file, connect to the copy.  The content
\* of the file and the --dry-run flag are the inputs of the session.
Connect ==
  /\ pc = "connect"
  /\ \E t \in Tables, d \in BOOLEAN :
       table' = t /\ table0' = t /\ dry_run' = d
  /\ connOpen' = TRUE
  /\ log' = Append(log, "connect")
  /\ pc' = "select"
  /\ UNCHANGED <<importVars, selections, int_macro_value, int_3_tuples,
                 tmpfile, rendered, returncode, lines, new_macro_value,
                 diffs, txn, outcome, err>>

\* the rows a WHERE name = n selects, in table order
RECURSIVE RowsNamed(_, _)
RowsNamed(t, n) ==
  IF t = <<>> THEN <<>>
  ELSE (IF Head(t).name = n THEN <<Head(t).macro_value>> ELSE <<>>)
         \o RowsNamed(Tail(t), n)

\* lines 140-143: SELECT macro_value ... WHERE name = macro_name; fetchall
Select ==
  /\ pc = "select"
  /\ selections' = RowsNamed(table, MacroName)
  /\ pc' = "check_rows"
  /\ UNCHANGED <<importVars, table, table0, dry_run, connOpen,
                 int_macro_value, int_3_tuples, tmpfile, rendered,
                 returncode, lines, new_macro_value, diffs, txn, log,
                 outcome, err>>

\* the value the assert statement of lines 144-147 tests: the statement is
\* assert(<condition>, <message>), whose operand is a 2-tuple, and a
\* non-empty tuple is true whatever the number of rows
RowCheckPasses(rows) == TRUE

\* lines 144-147
CheckOneRow ==
  /\ pc = "check_rows"
  /\ IF RowCheckPasses(selections)
       THEN pc' = "decode" /\ UNCHANGED <<outcome, err>>
       ELSE Abort(IF selections = <<>> THEN "MacroNotFound"
                                       ELSE "AmbiguousMacroName")
  /\ UNCHANGED <<importVars, table, table0, dry_run, connOpen, selections,
                 int_macro_value, int_3_tuples, tmpfile, rendered,
                 returncode, lines, new_macro_value, diffs, txn, log>>

\* lines 149-151: selections[0] raises IndexError when no row was selected
\* (MacroNotFound); int(x) raises ValueError on a text that is no integer,
\* as the one element "" of an empty list "[]" (InvalidMacroValue)
Decode ==
  /\ pc = "decode"
  /\ IF selections = <<>>
       THEN Abort("MacroNotFound") /\ UNCHANGED <<int_macro_value, int_3_tuples>>
       ELSE LET macro_value == selections[1] IN
            IF \E i \in DOMAIN macro_value : ~IsIntStr(macro_value[i])
              THEN Abort("InvalidMacroValue")
                   /\ UNCHANGED <<int_macro_value, int_3_tuples>>
              ELSE LET ints == [i \in DOMAIN macro_value |->
                                  IntOfStr(macro_value[i])] IN
                   /\ int_macro_value' = ints
                   /\ int_3_tuples' = Tuples(ints)
                   /\ pc' = "render"
                   /\ UNCHANGED <<outcome, err>>
  /\ UNCHANGED <<importVars, table, table0, dry_run, connOpen, selections,
                 tmpfile, rendered, returncode, lines, new_macro_value,
                 diffs, txn, log>>

RECURSIVE WriteEvents(_, _, _)
\* the loop of lines 175-177 over the tuples ts, appending to the file f:
\* [err, file]; the first tuple that cannot be written ends the loop
WriteEvents(ts, f, by_value) ==
  IF ts = <<>> THEN [err |-> "none", file |-> f]
  ELSE LET r == ToStr(Head(ts), by_value) IN
       IF r.err # "none" THEN [err |-> r.err, file |-> f]
       ELSE WriteEvents(Tail(ts),
                        Append(f, [hash |-> FALSE, toks |-> r.toks]),
                        by_value)

\* lines 153-177: write the instructions and one line per event
Render ==
  /\ pc = "render"
  /\ LET w == WriteEvents(int_3_tuples, Header, keycodes_by_value) IN
       /\ tmpfile' = w.file
       /\ rendered' = w.file
       /\ IF w.err = "none"
            THEN pc' = "editor" /\ UNCHANGED <<outcome, err>>
            ELSE Abort(w.err)
  /\ UNCHANGED <<importVars, table, table0, dry_run, connOpen, selections,
                 int_macro_value, int_3_tuples, returncode, lines,
                 new_macro_value, diffs, txn, log>>

\* lines 179-184: run $EDITOR on the file and wait; the operator leaves the
\* file as it is or saves another one, and the editor returns a status
Editor ==
  /\ pc = "editor"
  /\ \E f \in {tmpfile} \cup EditedFiles, rc \in {0, 1} :
       /\ tmpfile' = f
       /\ returncode' = rc
       /\ IF rc # 0
            THEN Abort("EditorFailed")
            ELSE pc' = "read" /\ UNCHANGED <<outcome, err>>
  /\ log' = Append(log, "editor")
  /\ UNCHANGED <<importVars, table, table0, dry_run, connOpen, selections,
                 int_macro_value, int_3_tuples, rendered, lines,
                 new_macro_value, diffs, txn>>

\* lines 187-188: keep the lines that neither start with '#' nor are blank
ReadBack ==
  /\ pc = "read"
  /\ lines' = SelectSeq(tmpfile, LAMBDA l : ~l.hash /\ l.toks # <<>>)
  /\ pc' = "parse"
  /\ UNCHANGED <<importVars, table, table0, dry_run, connOpen, selections,
                 int_macro_value, int_3_tuples, tmpfile, rendered,
                 returncode, new_macro_value, diffs, txn, log, outcome, err>>

RECURSIVE ParseLines(_, _, _)
\* the loop of lines 190-192 over the lines ls, extending the list acc:
\* [err, ints]; the first line that raises ends the loop
ParseLines(ls, acc, by_name) ==
  IF ls = <<>> THEN [err |-> "none", ints |-> acc]
  ELSE LET r == from_str(Head(ls).toks, by_name) IN
       IF r.err # "none" THEN [err |-> r.err, ints |-> acc]
       ELSE ParseLines(Tail(ls), acc \o r.ints, by_name)

\* Parse with the bug of issuing the UPDATE inside the loop, for the lines
\* parsed so far, instead of after it
Parse_UpdateInLoop ==
  /\ pc = "parse"
  /\ LET r == ParseLines(lines, <<>>, keycodes_by_name) IN
       /\ new_macro_value' = r.ints
       /\ IF r.ints # <<>>
            THEN /\ txn' = Append(txn, [name |-> MacroName,
                                        macro_value |-> FormatList(r.ints)])
                 /\ log' = Append(log, "update")
            ELSE UNCHANGED <<txn, log>>
       /\ IF r.err = "none"
            THEN pc' = "compare" /\ UNCHANGED <<outcome, err>>
            ELSE Abort(r.err)
  /\ UNCHANGED <<importVars, table, table0, dry_run, connOpen, selections,
                 int_macro_value, int_3_tuples, tmpfile, rendered,
                 returncode, lines, diffs>>

\* lines 190-194
Parse ==
  /\ pc = "parse"
  /\ LET r == ParseLines(lines, <<>>, keycodes_by_name) IN
       /\ new_macro_value' = r.ints
       /\ IF r.err = "none"
            THEN pc' = "compare" /\ UNCHANGED <<outcome, err>>
            ELSE Abort(r.err)
  /\ UNCHANGED <<importVars, table, table0, dry_run, connOpen, selections,
                 int_macro_value, int_3_tuples, tmpfile, rendered,
                 returncode, lines, diffs, txn, log>>

\* Unchanged with the bug of comparing the lengths of the lists only
Unchanged_ByLength(new, old) == Len(new) = Len(old)

\* the test of line 195
Unchanged(new, old) == new = old

\* lines 195-197: sys.exit(0) when the two int lists are equal
Compare ==
  /\ pc = "compare"
  /\ IF Unchanged(new_macro_value, int_macro_value)
       THEN pc' = "done" /\ outcome' = "Skipped"
       ELSE pc' = "diff" /\ UNCHANGED outcome
  /\ UNCHANGED <<importVars, table, table0, dry_run, connOpen, selections,
                 int_macro_value, int_3_tuples, tmpfile, rendered,
                 returncode, lines, new_macro_value, diffs, txn, log, err>>

RECURSIVE JoinInts(_)
\* ", ".join of the decimal texts of the ints of t
JoinInts(t) ==
  IF t = <<>> THEN ""
  ELSE IF Len(t) = 1 THEN ToString(t[1])
  ELSE ToString(t[1]) \o ", " \o JoinInts(Tail(t))

\* f"{t}" on a tuple of ints: "(3, 10, 0)"; a 1-tuple prints as "(4,)"
TupleStr(t) ==
  IF Len(t) = 1 THEN "(" \o ToString(t[1]) \o ",)"
  ELSE "(" \o JoinInts(t) \o ")"

\* [f"{t}" for t in ts]
TupleStrs(ts) == [i \in DOMAIN ts |-> TupleStr(ts[i])]

\* lines 204-221: the two diffs, each recorded by its (from, to) arguments.
\* difflib.unified_diff(a, b) reports a -> b and is called with
\* (new_strings, old_strings); HtmlDiff().make_file(fromlines, tolines) is
\* called with (old_strings, new_strings).  Writing the HTML file and
\* starting the browser (lines 212-221) are calls on collaborators that are
\* taken to return.
Diff ==
  /\ pc = "diff"
  /\ LET old_strings == TupleStrs(int_3_tuples)
         new_strings == TupleStrs(Tuples(new_macro_value)) IN
       diffs' = [unified_from |-> new_strings, unified_to |-> old_strings,
                 html_from |-> old_strings, html_to |-> new_strings]
  /\ pc' = "update"
  /\ UNCHANGED <<importVars, table, table0, dry_run, connOpen, selections,
                 int_macro_value, int_3_tuples, tmpfile, rendered,
                 returncode, lines, new_macro_value, txn, log, outcome, err>>

\* ShouldWrite with the bug of ignoring the flag
ShouldWrite_Always(dry) == TRUE

\* the test of line 245
ShouldWrite(dry) == ~dry

\* lines 244-249: UPDATE ... SET macro_value='{new_macro_value}' WHERE
\* name = macro_name, inside the connection's open transaction
Update ==
  /\ pc = "update"
  /\ IF ShouldWrite(dry_run)
       THEN /\ txn' = Append(txn, [name |-> MacroName,
                                   macro_value |-> FormatList(new_macro_value)])
            /\ log' = Append(log, "update")
       ELSE UNCHANGED <<txn, log>>
  /\ pc' = "commit"
  /\ UNCHANGED <<importVars, table, table0, dry_run, connOpen, selections,
                 int_macro_value, int_3_tuples, tmpfile, rendered,
                 returncode, lines, new_macro_value, diffs, outcome, err>>

RECURSIVE ApplyUpdates(_, _)
\* the table after the UPDATE statements us, in order
ApplyUpdates(t, us) ==
  IF us = <<>> THEN t
  ELSE ApplyUpdates(
         [i \in DOMAIN t |->
            IF t[i].name = Head(us).name
              THEN [t[i] EXCEPT !.macro_value = Head(us).macro_value]
              ELSE t[i]],
         Tail(us))

\* line 252: connection.commit()
Commit ==
  /\ pc = "commit"
  /\ table' = ApplyUpdates(table, txn)
  /\ txn' = <<>>
  /\ log' = Append(log, "commit")
  /\ pc' = "close"
  /\ UNCHANGED <<importVars, table0, dry_run, connOpen, selections,
                 int_macro_value, int_3_tuples, tmpfile, rendered,
                 returncode, lines, new_macro_value, diffs, outcome, err>>

\* line 253: connection.close(), then main returns
Close ==
  /\ pc = "close"
  /\ connOpen' = FALSE
  /\ log' = Append(log, "close")
  /\ pc' = "done"
  /\ outcome' = IF dry_run THEN "DryRun" ELSE "Persisted"
  /\ UNCHANGED <<importVars, table, table0, dry_run, selections,
                 int_macro_value, int_3_tuples, tmpfile, rendered,
                 returncode, lines, new_macro_value, diffs, txn, err>>

Next ==
  \/ BuildByValue
  \/ BuildByName
  \/ Connect
  \/ Select
  \/ CheckOneRow
  \/ Decode
  \/ Render
  \/ Editor
  \/ ReadBack
  \/ Parse
  \/ Compare
  \/ Diff
  \/ Update
  \/ Commit
  \/ Close

Spec == Init /\ [][Next]_vars

----------------------------------------------------------------------------
(* Vocabulary of the properties.                                           *)

Range(f) == { f[i] : i \in DOMAIN f }

Imported == pc \notin {"import_by_value", "import_by_name"}
Done == pc = "done"
EditorRan == "editor" \in Range(log)
NoWrite == "update" \notin Range(log) /\ txn = <<>> /\ table = table0

\* the loop of lines 190-192 has ended, by its last line or by an exception
ParseEnded ==
  \/ pc \in {"compare", "diff", "update", "commit", "close"}
  \/ Done /\ EditorRan /\ returncode = 0

\* the loop of lines 190-192 has ended by its last line
ParsedOk == ParseEnded /\ err = "none"

\* the values of the rows named MacroName
StoredNow == RowsNamed(table, MacroName)

\* line k of lines is WAIT d, in any letter case
IsWaitLine(k, d) ==
  /\ Len(lines[k].toks) = 2
  /\ Upper(lines[k].toks[1]) = "WAIT"
  /\ lines[k].toks[2] = ToString(d)

\* the k-th group of three of the int list v
Triple(v, k) == SubSeq(v, 3 * k - 2, 3 * k)

\* the events of v are as MacroEvent requires: key events with a keycode of
\* the by-value map and field3 = 0, WAIT events with both fields in 0..255
ValidEvents(v) ==
  /\ Len(v) % 3 = 0
  /\ \A k \in 1 .. (Len(v) \div 3) :
       LET t == Triple(v, k) IN
         \/ t[1] \in {KEY_UP, KEY_DOWN}
              /\ t[2] \in DOMAIN keycodes_by_value /\ t[3] = 0
         \/ t[1] = WAIT /\ t[2] \in 0 .. 255 /\ t[3] \in 0 .. 255

----------------------------------------------------------------------------
(* C1: for a stored sequence of valid events, parsing the rendered         *)
(* document as the operator left it (unmodified) yields the same flat      *)
(* value, and the session ends Skipped without a store write.              *)
C1_RoundTrip ==
  (ParseEnded /\ tmpfile = rendered /\ ValidEvents(int_macro_value))
    => /\ err = "none"
       /\ new_macro_value = int_macro_value
       /\ NoWrite
       /\ Done => outcome = "Skipped"

(* C2: a line WAIT d with d in 0..65535 is parsed to the triple            *)
(* [3, d mod 256, d div 256], so that field2 + field3*256 = d.             *)
C2_DurationSplit ==
  ParsedOk =>
    \A k \in DOMAIN lines : \A d \in Durations \cap (0 .. 65535) :
      IsWaitLine(k, d) =>
        /\ Triple(new_macro_value, k) = <<WAIT, d % 256, d \div 256>>
        /\ Triple(new_macro_value, k)[2] + Triple(new_macro_value, k)[3] * 256 = d

(* C3: a session that aborts with an error has issued no store write: the  *)
(* stored value at its end is the value at its start.                      *)
C3_AbortLeavesStore ==
  (Done /\ outcome = "Aborted") => NoWrite

\* witness of C3: the parse loop accepted a line and then raised
C3_Witness ==
  /\ Done /\ outcome = "Aborted" /\ EditorRan /\ returncode = 0
  /\ err = "UnknownEventKind"
  /\ new_macro_value # <<>> /\ new_macro_value # int_macro_value
  /\ NoWrite

(* C4: a dry-run session never issues a store write, whatever the edit.    *)
C4_DryRunNoWrite ==
  dry_run => NoWrite

\* witness of C4: a dry run that ended with a changed value
C4_Witness ==
  /\ dry_run /\ Done /\ outcome = "DryRun"
  /\ new_macro_value # int_macro_value
  /\ NoWrite

(* C5: unless exactly one row matches the name the session fails, with     *)
(* MacroNotFound for no row and AmbiguousMacroName for several, and no row *)
(* is decoded, rendered or handed to the editor.                           *)
C5_ExactlyOneRow ==
  (pc \notin {"import_by_value", "import_by_name", "connect", "select",
              "check_rows", "decode"} /\ Len(selections) # 1)
    => /\ Done /\ outcome = "Aborted"
       /\ err = IF selections = <<>> THEN "MacroNotFound"
                                     ELSE "AmbiguousMacroName"
       /\ int_macro_value = <<>> /\ rendered = <<>> /\ ~EditorRan

(* C6: when a session that opened the connection ends (Persisted, Skipped, *)
(* aborted by the editor's status or by a parse error), the connection has *)
(* been closed.                                                            *)
C6_ClosedAtExit ==
  (Done /\ (outcome \in {"Persisted", "Skipped"}
              \/ (outcome = "Aborted" /\ EditorRan)))
    => ~connOpen /\ log[Len(log)] = "close"

\* entry i is the first entry of the table with its value / with its name
FirstWithValue(i) ==
  \A j \in 1 .. (i - 1) : originalMap[j].value # originalMap[i].value
FirstWithName(i) ==
  \A j \in 1 .. (i - 1) : originalMap[j].name # originalMap[i].name

(* C7: the two maps are first-seen-wins: each value and each name resolves *)
(* to the first table entry that has it.                                   *)
C7_FirstSeenWins ==
  Imported =>
    \A i \in DOMAIN originalMap :
      LET e == originalMap[i] IN
        /\ FirstWithValue(i) =>
             keycodes_by_value[e.value] = [id |-> e.id, name |-> e.name]
        /\ FirstWithName(i) =>
             keycodes_by_name[e.name] = [id |-> e.id, value |-> e.value]

(* C8: a WAIT line with a duration of 65536 or more fails with             *)
(* DurationOutOfRange; a session whose edited document holds such a line   *)
(* aborts and issues no store write.                                       *)
C8_DurationOutOfRange ==
  (ParseEnded /\ \E k \in DOMAIN lines : \E d \in Durations :
                   d >= 65536 /\ IsWaitLine(k, d))
    => /\ Done /\ outcome = "Aborted" /\ NoWrite
       /\ (\E d \in Durations : d >= 65536 /\ IsWaitLine(1, d))
            => err = "DurationOutOfRange"

\* every complete group of three of v can be written as an event line
CompleteTriplesRender(v) ==
  \A k \in 1 .. (Len(v) \div 3) :
    ToStr(Triple(v, k), keycodes_by_value).err = "none"

(* C9 as stated: a stored flat value whose length is no multiple of 3      *)
(* fails with MalformedMacro, before the editor is launched and without a  *)
(* store write.                                                            *)
C9_MalformedMacro ==
  (Done /\ Len(int_macro_value) % 3 # 0)
    => err = "MalformedMacro" /\ ~EditorRan /\ NoWrite

(* C9 as amended: a stored flat value whose length is no multiple of 3     *)
(* always fails before the editor is launched and without a store write;   *)
(* the failure is MalformedMacro when every complete triple renders, and   *)
(* otherwise that of the first triple that does not render                 *)
(* (UnknownEventKind or UnknownKeycode).                                   *)
C9_FailsBeforeEditor ==
  (Len(int_macro_value) % 3 # 0)
    => /\ pc \in {"render", "done"}
       /\ ~EditorRan /\ NoWrite
       /\ Done =>
            /\ outcome = "Aborted"
            /\ err \in {"MalformedMacro", "UnknownEventKind", "UnknownKeycode"}
            /\ CompleteTriplesRender(int_macro_value) <=> err = "MalformedMacro"

\* witness of C9: one complete event was written, the rest is one int
C9_Witness ==
  /\ Done /\ outcome = "Aborted" /\ err = "MalformedMacro"
  /\ Len(int_macro_value) % 3 = 1
  /\ Len(rendered) = HeaderLen + 1
  /\ ~EditorRan /\ NoWrite

(* C10: a session that is no dry run, whose editor returned 0 and whose    *)
(* document parsed, writes if and only if the new flat value differs from  *)
(* the original: equal, it ends Skipped without a write; unequal, it       *)
(* issues one UPDATE of the new value under the macro name, commits after  *)
(* it, and the stored value is then the new value (Persisted).             *)
C10_WriteIffChanged ==
  (Done /\ ~dry_run /\ EditorRan /\ returncode = 0 /\ err = "none")
    => IF new_macro_value = int_macro_value
         THEN outcome = "Skipped" /\ NoWrite
         ELSE /\ outcome = "Persisted"
              /\ log = <<"connect", "editor", "update", "commit", "close">>
              /\ txn = <<>>
              /\ \A i \in DOMAIN table :
                   IF table[i].name = MacroName
                     THEN table[i].macro_value = FormatList(new_macro_value)
                     ELSE table[i] = table0[i]
              /\ new_macro_value # <<>> =>
                   \A r \in Range(StoredNow) :
                     [i \in DOMAIN r |-> IntOfStr(r[i])] = new_macro_value

\* witness of C10: a changed value was written and committed
C10_Witness ==
  /\ Done /\ ~dry_run /\ outcome = "Persisted"
  /\ new_macro_value # int_macro_value
  /\ table # table0
  /\ StoredNow = <<FormatList(new_macro_value)>>

----------------------------------------------------------------------------
\* the lines a diff of (from, to) reports as added (+) and as removed (-),
\* for the lines that occur on one side only
AddedLines(from, to) == Range(to) \ Range(from)
RemovedLines(from, to) == Range(from) \ Range(to)

\* the diffs of lines 208 and 211 have been computed
DiffsMade == pc \in {"update", "commit", "close"} \/ (Done /\ outcome \in {"Persisted", "DryRun"})

\* the triple-grouped renderings of the original and of the edited value
BeforeStrings == TupleStrs(Tuples(int_macro_value))
AfterStrings == TupleStrs(Tuples(new_macro_value))

(* C11: when the new flat value differs from the original, every diff of   *)
(* the session (the unified text diff and the HTML diff) is computed from  *)
(* before = the triples of the original to after = the triples of the      *)
(* edited value: a triple only in the edited value is reported as added,   *)
(* one only in the original as removed, and the diff is not empty.         *)
C11_DiffBeforeAfter ==
  DiffsMade =>
    /\ BeforeStrings # AfterStrings
    /\ diffs.html_from = BeforeStrings /\ diffs.html_to = AfterStrings
    /\ diffs.unified_from = BeforeStrings /\ diffs.unified_to = AfterStrings
    /\ AddedLines(diffs.unified_from, diffs.unified_to)
         = Range(AfterStrings) \ Range(BeforeStrings)
    /\ RemovedLines(diffs.unified_from, diffs.unified_to)
         = Range(BeforeStrings) \ Range(AfterStrings)

(* C12: every flat value a session writes to the store is well-formed: its *)
(* length is a multiple of 3, each kind tag is 1, 2 or 3, field2 and       *)
(* field3 are in 0..255, and a key event has a keycode of the by-value map *)
(* and field3 = 0, whatever the operator typed.                            *)
C12_WrittenWellFormed ==
  /\ "update" \in Range(log) => ValidEvents(new_macro_value)
  /\ \A i \in DOMAIN txn :
       txn[i].macro_value = FormatList(new_macro_value)

====
